---- MODULE Spec2Model ----
(***************************************************************************)
(* Model of the VoiceChat component (src/src/components/VoiceChat.tsx):    *)
(* the connect()/cleanup()/disconnect() session lifecycle with its         *)
(* suspension points and WebRTC callbacks, and the handleRealtimeEvent     *)
(* transcript reducer.                                                     *)
(*                                                                         *)
(* Every invocation of connect() is a "call" c \in Calls.  The objects a   *)
(* call creates (its local variables pc, audioEl, stream, dc and the       *)
(* animation-frame loop started by monitorVolume) are indexed by the call  *)
(* that created them; the refs of the component (pcRef, dcRef, ...) hold   *)
(* the index of the object they point to, or NullRef.                      *)
(***************************************************************************)
EXTENDS Integers, Sequences, FiniteSets, TLC

\* ------------------------------------------------------------------ bounds
MaxConnects == 3    \* connect() invocations in one behaviour
MaxMessages == 2    \* length of the message list
MaxTextLen == 2     \* length of an accumulated transcript
MaxTime == 1        \* readings of the clock (new Date()) are 0..MaxTime

NullRef == 0
Calls == 1..MaxConnects

VARIABLES
    \* React state of the component
    status, messages, isAiSpeaking, error, inputVolume,
    \* refs of the component
    pcRef, dcRef, audioElRef, streamRef, animFrameRef, partialTranscripts,
    \* per call of connect(): the await it is suspended at, and its objects
    at, pc, audioEl, stream, dc, loop,
    \* environment
    mounted, now,
    \* history: the last operation that ran, the calls that were in flight
    \* when disconnect() ran while status was "connecting", per item id
    \* the events received for it, and the item ids in the order in which
    \* their first fragment or final event arrived with the text that the
    \* fragment and final events of each id alone give
    last, cancelled, track, seen

vars == <<status, messages, isAiSpeaking, error, inputVolume,
          pcRef, dcRef, audioElRef, streamRef, animFrameRef, partialTranscripts,
          at, pc, audioEl, stream, dc, loop, mounted, now, last, cancelled,
          track, seen>>

reactVars == <<status, messages, isAiSpeaking, error, inputVolume>>
heapVars == <<pcRef, dcRef, audioElRef, streamRef, animFrameRef,
              pc, audioEl, stream, dc, loop>>

\* ------------------------------------------------------------ the values
NoError == "null"
Volumes == {0, 1}

\* The awaits of connect(), in program order.
Awaits == {"fetchToken", "errJson", "tokenJson", "getUserMedia", "createOffer",
           "setLocalDescription", "fetchSdp", "sdpText", "setRemoteDescription"}

InFlight(c) == at[c] \in Awaits

\* A thrown value: an Error carrying a message.
Err(m) == [isError |-> TRUE, message |-> m]

\* Rejections raised by the browser (fetch, getUserMedia, RTCPeerConnection).
EnvErrors == {Err("NotAllowedError"), Err("InvalidStateError")}

\* Bodies of a non-ok response of /api/session: the error field, or none.
ErrDataErrors == {"", "OPENAI_API_KEY is not configured"}

\* Item ids carried by the events of the message channel.
ItemIds == {"i1", "i2"}

\* partialTranscriptsRef.current, a Map<string, string>: per key, whether it
\* has an entry and the entry's value.
NoEntry == [has |-> FALSE, text |-> <<>>]
EmptyMap == [k \in ItemIds |-> NoEntry]
MapHas(m, k) == m[k].has
MapSet(m, k, v) == [m EXCEPT ![k] = [has |-> TRUE, text |-> v]]
MapDelete(m, k) == [m EXCEPT ![k] = NoEntry]

\* History of the events of an item id: "none", "fragments" (only
\* fragments so far, n of them, text their deltas in arrival order),
\* "final" (fragments, then one final event) or "other".
NoTrack == [k \in ItemIds |-> [kind |-> "none", n |-> 0, text |-> <<>>]]
OtherTrack == [kind |-> "other", n |-> 0, text |-> <<>>]

\* History of the fragment and final events: no item id seen, and for
\* each id no run of fragments open and no text.
NoSeen ==
    [order |-> <<>>,
     own |-> [k \in ItemIds |-> [open |-> FALSE, text |-> <<>>]]]

NoEvent == [type |-> "none"]
Op(name, c) == [op |-> name, call |-> c, ev |-> NoEvent]

\* -------------------------------------------------------------- the heap
\* The refs and the objects they point to, as one value, so that the
\* synchronous code of a handler can be composed.
Heap == [pcRef |-> pcRef, dcRef |-> dcRef, audioElRef |-> audioElRef,
         streamRef |-> streamRef, animFrameRef |-> animFrameRef,
         pc |-> pc, audioEl |-> audioEl, stream |-> stream, dc |-> dc,
         loop |-> loop]

SetHeap(h) ==
    /\ pcRef' = h.pcRef
    /\ dcRef' = h.dcRef
    /\ audioElRef' = h.audioElRef
    /\ streamRef' = h.streamRef
    /\ animFrameRef' = h.animFrameRef
    /\ pc' = h.pc
    /\ audioEl' = h.audioEl
    /\ stream' = h.stream
    /\ dc' = h.dc
    /\ loop' = h.loop

\* RTCDataChannel.close(), and the closing of a channel by the close() of
\* its peer connection: the channel starts closing; its close event is
\* dispatched later (DcOnClose).
CloseChannel(s) == IF s \in {"connecting", "open"} THEN "closing" ELSE s

\* cleanup(), lines 255-285, on the refs and objects.  The two state
\* setters at its end are in CleanupFlags.
cleanup(h) ==
    LET h1 == IF h.animFrameRef # NullRef
              THEN [h EXCEPT !.loop[h.animFrameRef] = "cancelled",
                             !.animFrameRef = NullRef]
              ELSE h
        h2 == IF h1.streamRef # NullRef
              THEN [h1 EXCEPT !.stream[h1.streamRef] = "stopped",
                              !.streamRef = NullRef]
              ELSE h1
        h3 == IF h2.dcRef # NullRef
              THEN [h2 EXCEPT !.dc[h2.dcRef] = CloseChannel(@),
                              !.dcRef = NullRef]
              ELSE h2
        h4 == IF h3.pcRef # NullRef
              THEN [h3 EXCEPT !.pc[h3.pcRef] = "closed",
                              !.dc[h3.pcRef] = CloseChannel(@),
                              !.pcRef = NullRef]
              ELSE h3
        h5 == IF h4.audioElRef # NullRef
              THEN [h4 EXCEPT !.audioEl[h4.audioElRef] = "removed",
                              !.audioElRef = NullRef]
              ELSE h4
    IN  h5

\* CleanupFlags without setInputVolume(0).
CleanupFlagsKeepVolume == isAiSpeaking' = FALSE /\ UNCHANGED inputVolume

CleanupFlags ==
    /\ inputVolume' = 0
    /\ isAiSpeaking' = FALSE

\* ----------------------------------------------------------------- Init
Init ==
    /\ status = "disconnected"
    /\ messages = <<>>
    /\ isAiSpeaking = FALSE
    /\ error = NoError
    /\ inputVolume = 0
    /\ pcRef = NullRef
    /\ dcRef = NullRef
    /\ audioElRef = NullRef
    /\ streamRef = NullRef
    /\ animFrameRef = NullRef
    /\ partialTranscripts = EmptyMap
    /\ at = [c \in Calls |-> "idle"]
    /\ pc = [c \in Calls |-> "none"]
    /\ audioEl = [c \in Calls |-> "none"]
    /\ stream = [c \in Calls |-> "none"]
    /\ dc = [c \in Calls |-> "none"]
    /\ loop = [c \in Calls |-> "none"]
    /\ mounted = TRUE
    /\ now = 0
    /\ last = Op("init", NullRef)
    /\ cancelled = {}
    /\ track = NoTrack
    /\ seen = NoSeen

\* ------------------------------------------------- disconnect, connect
\* disconnect() that also empties the accumulators.
disconnectClearsTranscripts(name) ==
    /\ SetHeap(cleanup(Heap))
    /\ CleanupFlags
    /\ status' = "disconnected"
    /\ cancelled' = IF status = "connecting"
                    THEN cancelled \cup {c \in Calls : InFlight(c)}
                    ELSE cancelled
    /\ last' = Op(name, NullRef)
    /\ partialTranscripts' = EmptyMap
    /\ UNCHANGED <<messages, error, at, now, track, seen>>

\* disconnect(), lines 287-290.
disconnect(name) ==
    /\ SetHeap(cleanup(Heap))
    /\ CleanupFlags
    /\ status' = "disconnected"
    /\ cancelled' = IF status = "connecting"
                    THEN cancelled \cup {c \in Calls : InFlight(c)}
                    ELSE cancelled
    /\ last' = Op(name, NullRef)
    /\ UNCHANGED <<messages, error, partialTranscripts, at, now, track, seen>>

\* connect() that starts the new session with an empty message list.
connectClearsMessages ==
    /\ \E c \in Calls :
        /\ at[c] = "idle"
        /\ \A b \in Calls : b < c => at[b] # "idle"
        /\ at' = [at EXCEPT ![c] = "fetchToken"]
        /\ last' = Op("connect", c)
    /\ error' = NoError
    /\ status' = "connecting"
    /\ messages' = <<>>
    /\ UNCHANGED <<isAiSpeaking, inputVolume, heapVars,
                   partialTranscripts, mounted, now, cancelled, track, seen>>

\* connect() up to its first await, lines 67-73.
connect ==
    /\ \E c \in Calls :
        /\ at[c] = "idle"
        /\ \A b \in Calls : b < c => at[b] # "idle"
        /\ at' = [at EXCEPT ![c] = "fetchToken"]
        /\ last' = Op("connect", c)
    /\ error' = NoError
    /\ status' = "connecting"
    /\ UNCHANGED <<messages, isAiSpeaking, inputVolume, heapVars,
                   partialTranscripts, mounted, now, cancelled, track, seen>>

\* The main button, lines 508-510.
ClickMainButton ==
    /\ mounted
    /\ status # "connecting"
    /\ IF status = "disconnected"
       THEN connect
       ELSE disconnect("disconnect") /\ UNCHANGED mounted

\* The End Session button, lines 315-322.
ClickEndSession ==
    /\ mounted
    /\ status = "connected"
    /\ disconnect("disconnect")
    /\ UNCHANGED mounted

\* The dismiss button of the error banner, lines 461-466, rendered while
\* error is truthy.
DismissError ==
    /\ mounted
    /\ error \notin {NoError, ""}
    /\ error' = NoError
    /\ last' = Op("dismissError", NullRef)
    /\ UNCHANGED <<status, messages, isAiSpeaking, inputVolume, heapVars,
                   partialTranscripts, at, mounted, now, cancelled,
                   track, seen>>

\* The unmount effect, lines 41-46: the only caller of disconnect() while
\* the status is "connecting" (the main button is disabled then).  The
\* awaits and callbacks of the component keep running afterwards.
Unmount ==
    /\ mounted
    /\ mounted' = FALSE
    /\ disconnect("unmount")

\* ------------------------------------------------------ connect: catch
ErrorText(err) == IF err.isError THEN err.message ELSE "Connection failed"

\* The catch block of connect(), lines 158-163, entered by call c with the
\* refs and objects as the code before the throw left them.
Catch(c, err, h) ==
    /\ error' = ErrorText(err)
    /\ status' = "disconnected"
    /\ SetHeap(cleanup(h))
    /\ CleanupFlags
    /\ at' = [at EXCEPT ![c] = "failed"]
    /\ last' = Op("catch", c)
    /\ UNCHANGED <<messages, partialTranscripts, mounted, now, cancelled,
                   track, seen>>

\* An await of call c resumes and the code runs on to the next await.
Resume(c, name, next) ==
    /\ at' = [at EXCEPT ![c] = next]
    /\ last' = Op(name, c)
    /\ UNCHANGED <<reactVars, heapVars, partialTranscripts, mounted, now,
                   cancelled, track, seen>>

\* ------------------------------------------------------ connect: steps
\* await fetch("/api/session"), line 73, resolves with a response.
FetchTokenResolve(c) ==
    /\ at[c] = "fetchToken"
    /\ \E ok \in BOOLEAN :
        Resume(c, "fetchTokenResolve", IF ok THEN "tokenJson" ELSE "errJson")

FetchTokenReject(c) ==
    /\ at[c] = "fetchToken"
    /\ \E err \in EnvErrors : Catch(c, err, Heap)

\* await tokenRes.json() of a non-ok response, lines 75-76.
ErrJsonResolve(c) ==
    /\ at[c] = "errJson"
    /\ \E e \in ErrDataErrors :
        Catch(c, Err(IF e # "" THEN e ELSE "Failed to get session token"), Heap)

ErrJsonReject(c) ==
    /\ at[c] = "errJson"
    /\ \E err \in EnvErrors : Catch(c, err, Heap)

\* new RTCPeerConnection() and the audio element, lines 86-98.
AllocatePeer(h, c) ==
    [h EXCEPT !.pc[c] = "open", !.pcRef = c,
              !.audioEl[c] = "attached", !.audioElRef = c]

\* TokenJsonResolve with the peer connection and the audio element
\* created before the key is looked at.
TokenJsonResolveAllocFirst(c) ==
    /\ at[c] = "tokenJson"
    /\ \E hasKey \in BOOLEAN :
        IF hasKey
        THEN /\ SetHeap(AllocatePeer(Heap, c))
             /\ at' = [at EXCEPT ![c] = "getUserMedia"]
             /\ last' = Op("tokenJsonResolve", c)
             /\ UNCHANGED <<reactVars, partialTranscripts, mounted, now,
                            cancelled, track, seen>>
        ELSE Catch(c, Err("No ephemeral key received from server"),
                   AllocatePeer(Heap, c))

\* await tokenRes.json(), lines 78-111: without a key the call throws;
\* with one it allocates the peer connection and the audio element and
\* asks for the microphone.
TokenJsonResolve(c) ==
    /\ at[c] = "tokenJson"
    /\ \E hasKey \in BOOLEAN :
        IF hasKey
        THEN /\ SetHeap(AllocatePeer(Heap, c))
             /\ at' = [at EXCEPT ![c] = "getUserMedia"]
             /\ last' = Op("tokenJsonResolve", c)
             /\ UNCHANGED <<reactVars, partialTranscripts, mounted, now,
                            cancelled, track, seen>>
        ELSE Catch(c, Err("No ephemeral key received from server"), Heap)

TokenJsonReject(c) ==
    /\ at[c] = "tokenJson"
    /\ \E err \in EnvErrors : Catch(c, err, Heap)

\* monitorVolume(stream), lines 48-65, and the first tick(): the loop of
\* call c has a frame requested and animFrameRef holds its request id.
monitorVolume(h, c) ==
    [h EXCEPT !.loop[c] = "scheduled", !.animFrameRef = c]

\* pc.createDataChannel("oai-events"), lines 119-132.
CreateDataChannel(h, c) ==
    [h EXCEPT !.dc[c] = "connecting", !.dcRef = c]

\* await getUserMedia, lines 111-135, resolves: the stream is live and
\* stored; pc.addTrack throws InvalidStateError on a closed connection;
\* otherwise the volume loop starts, the channel is created and the offer
\* is asked for.
GetUserMediaResolve(c) ==
    /\ at[c] = "getUserMedia"
    /\ LET h1 == [Heap EXCEPT !.stream[c] = "live", !.streamRef = c]
       IN  IF pc[c] = "closed"
           THEN Catch(c, Err("InvalidStateError"), h1)
           ELSE /\ SetHeap(CreateDataChannel(monitorVolume(h1, c), c))
                /\ \E v \in Volumes : inputVolume' = v
                /\ at' = [at EXCEPT ![c] = "createOffer"]
                /\ last' = Op("getUserMediaResolve", c)
                /\ UNCHANGED <<status, messages, isAiSpeaking, error,
                               partialTranscripts, mounted, now, cancelled,
                               track, seen>>

GetUserMediaReject(c) ==
    /\ at[c] = "getUserMedia"
    /\ \E err \in EnvErrors : Catch(c, err, Heap)

\* await pc.createOffer(), line 135.  An operation of a closed connection
\* does not succeed: it rejects or never settles.
CreateOfferResolve(c) ==
    /\ at[c] = "createOffer"
    /\ pc[c] = "open"
    /\ Resume(c, "createOfferResolve", "setLocalDescription")

CreateOfferReject(c) ==
    /\ at[c] = "createOffer"
    /\ \E err \in EnvErrors : Catch(c, err, Heap)

\* await pc.setLocalDescription(offer), line 136.
SetLocalDescriptionResolve(c) ==
    /\ at[c] = "setLocalDescription"
    /\ pc[c] = "open"
    /\ Resume(c, "setLocalDescriptionResolve", "fetchSdp")

SetLocalDescriptionReject(c) ==
    /\ at[c] = "setLocalDescription"
    /\ \E err \in EnvErrors : Catch(c, err, Heap)

\* await fetch(realtime endpoint), lines 139-156.
FetchSdpResolve(c) ==
    /\ at[c] = "fetchSdp"
    /\ \E ok \in BOOLEAN :
        IF ok
        THEN Resume(c, "fetchSdpResolve", "sdpText")
        ELSE Catch(c, Err("Failed to establish WebRTC connection with OpenAI"),
                   Heap)

FetchSdpReject(c) ==
    /\ at[c] = "fetchSdp"
    /\ \E err \in EnvErrors : Catch(c, err, Heap)

\* await sdpRes.text(), lines 156-157.
SdpTextResolve(c) ==
    /\ at[c] = "sdpText"
    /\ Resume(c, "sdpTextResolve", "setRemoteDescription")

SdpTextReject(c) ==
    /\ at[c] = "sdpText"
    /\ \E err \in EnvErrors : Catch(c, err, Heap)

\* await pc.setRemoteDescription(answer), line 157: connect() returns.
SetRemoteDescriptionResolve(c) ==
    /\ at[c] = "setRemoteDescription"
    /\ pc[c] = "open"
    /\ Resume(c, "setRemoteDescriptionResolve", "done")

SetRemoteDescriptionReject(c) ==
    /\ at[c] = "setRemoteDescription"
    /\ \E err \in EnvErrors : Catch(c, err, Heap)

\* ---------------------------------------------------- channel callbacks
\* dc.onopen, lines 122-124: the channel of call c opens once the answer
\* has been applied.
DcOnOpen(c) ==
    /\ dc[c] = "connecting"
    /\ pc[c] = "open"
    /\ at[c] = "done"
    /\ dc' = [dc EXCEPT ![c] = "open"]
    /\ status' = "connected"
    /\ last' = Op("dcOnOpen", c)
    /\ UNCHANGED <<messages, isAiSpeaking, error, inputVolume,
                   pcRef, dcRef, audioElRef, streamRef, animFrameRef,
                   pc, audioEl, stream, loop,
                   partialTranscripts, at, mounted, now, cancelled,
                   track, seen>>

\* dc.onclose, lines 130-132: the close event of the channel of call c,
\* after the remote side closed an open channel or after close().
DcOnClose(c) ==
    /\ dc[c] \in {"open", "closing"}
    /\ dc' = [dc EXCEPT ![c] = "closed"]
    /\ status' = "disconnected"
    /\ last' = Op("dcOnClose", c)
    /\ UNCHANGED <<messages, isAiSpeaking, error, inputVolume,
                   pcRef, dcRef, audioElRef, streamRef, animFrameRef,
                   pc, audioEl, stream, loop,
                   partialTranscripts, at, mounted, now, cancelled,
                   track, seen>>

\* tick(), lines 58-63, of the loop of call c.
Tick(c) ==
    /\ loop[c] = "scheduled"
    /\ \E v \in Volumes : inputVolume' = v
    /\ animFrameRef' = c
    /\ last' = Op("tick", c)
    /\ UNCHANGED <<status, messages, isAiSpeaking, error,
                   pcRef, dcRef, audioElRef, streamRef,
                   pc, audioEl, stream, dc, loop,
                   partialTranscripts, at, mounted, now, cancelled,
                   track, seen>>

ConnectStep(c) ==
    \/ FetchTokenResolve(c)
    \/ FetchTokenReject(c)
    \/ ErrJsonResolve(c)
    \/ ErrJsonReject(c)
    \/ TokenJsonResolve(c)
    \/ TokenJsonReject(c)
    \/ GetUserMediaResolve(c)
    \/ GetUserMediaReject(c)
    \/ CreateOfferResolve(c)
    \/ CreateOfferReject(c)
    \/ SetLocalDescriptionResolve(c)
    \/ SetLocalDescriptionReject(c)
    \/ FetchSdpResolve(c)
    \/ FetchSdpReject(c)
    \/ SdpTextResolve(c)
    \/ SdpTextReject(c)
    \/ SetRemoteDescriptionResolve(c)
    \/ SetRemoteDescriptionReject(c)

Lifecycle ==
    \/ ClickMainButton
    \/ ClickEndSession
    \/ DismissError
    \/ Unmount
    \/ \E c \in Calls : ConnectStep(c)
    \/ \E c \in Calls : DcOnOpen(c)
    \/ \E c \in Calls : DcOnClose(c)
    \/ \E c \in Calls : Tick(c)

\* ------------------------------------------------- the transcript reducer
\* Texts are sequences of characters; " " is the whitespace character.
Whitespace == {" "}

\* String.prototype.trim(): strips leading and trailing whitespace.
RECURSIVE TrimLeft(_)
TrimLeft(s) ==
    IF s # <<>> /\ Head(s) \in Whitespace THEN TrimLeft(Tail(s)) ELSE s

RECURSIVE TrimRight(_)
TrimRight(s) ==
    IF s # <<>> /\ s[Len(s)] \in Whitespace
    THEN TrimRight(SubSeq(s, 1, Len(s) - 1))
    ELSE s

trim(s) == TrimRight(TrimLeft(s))

\* Array.prototype.findIndex((m) => m.id === itemId): the 0-based index of
\* the first match, or -1.
findIndex(prev, itemId) ==
    LET hits == {i \in 1..Len(prev) : prev[i].id = itemId}
    IN  IF hits = {} THEN -1
        ELSE (CHOOSE i \in hits : \A j \in hits : i <= j) - 1

\* Variant of SetMessagesDelta that stamps the updated Message anew.
SetMessagesDeltaRestamp(prev, itemId, updated, t) ==
    LET idx == findIndex(prev, itemId)
    IN  IF idx >= 0
        THEN [prev EXCEPT ![idx + 1].text = updated,
                          ![idx + 1].timestamp = t]
        ELSE Append(prev, [id |-> itemId, role |-> "assistant",
                           text |-> updated, timestamp |-> t])

\* The updater passed to setMessages by the delta case, lines 177-193.
SetMessagesDelta(prev, itemId, updated, t) ==
    LET idx == findIndex(prev, itemId)
    IN  IF idx >= 0
        THEN [prev EXCEPT ![idx + 1].text = updated]
        ELSE Append(prev, [id |-> itemId, role |-> "assistant",
                           text |-> updated, timestamp |-> t])

\* Variant of SetMessagesDone that appends the transcript to the text
\* accumulated so far.
SetMessagesDoneMerge(prev, itemId, transcript, t) ==
    LET idx == findIndex(prev, itemId)
    IN  IF idx >= 0
        THEN [prev EXCEPT ![idx + 1].text = @ \o transcript]
        ELSE Append(prev, [id |-> itemId, role |-> "assistant",
                           text |-> transcript, timestamp |-> t])

\* Variant of SetMessagesDone that moves the finished Message to the end
\* of the list.
SetMessagesDoneMoveLast(prev, itemId, transcript, t) ==
    LET idx == findIndex(prev, itemId)
    IN  IF idx >= 0
        THEN Append(SubSeq(prev, 1, idx) \o SubSeq(prev, idx + 2, Len(prev)),
                    [prev[idx + 1] EXCEPT !.text = transcript])
        ELSE Append(prev, [id |-> itemId, role |-> "assistant",
                           text |-> transcript, timestamp |-> t])

\* The updater passed to setMessages by the done case, lines 203-219.
SetMessagesDone(prev, itemId, transcript, t) ==
    LET idx == findIndex(prev, itemId)
    IN  IF idx >= 0
        THEN [prev EXCEPT ![idx + 1].text = transcript]
        ELSE Append(prev, [id |-> itemId, role |-> "assistant",
                           text |-> transcript, timestamp |-> t])

\* Variant of SetMessagesUser that stores the transcript untrimmed.
SetMessagesUserUntrimmed(prev, itemId, transcript, t) ==
    Append(prev, [id |-> itemId, role |-> "user",
                  text |-> transcript, timestamp |-> t])

\* The updater passed to setMessages by the user transcript, lines 228-236.
SetMessagesUser(prev, itemId, transcript, t) ==
    Append(prev, [id |-> itemId, role |-> "user",
                  text |-> trim(transcript), timestamp |-> t])

\* Variant of Updated that puts the delta before the accumulated text.
UpdatedPrepend(m, itemId, delta) ==
    delta \o (IF MapHas(m, itemId) THEN m[itemId].text ELSE <<>>)

\* partialTranscriptsRef.current.get(itemId) ?? "" followed by + delta,
\* lines 173-174.
Updated(m, itemId, delta) ==
    (IF MapHas(m, itemId) THEN m[itemId].text ELSE <<>>) \o delta

\* transcript?.trim() as a condition, line 227: the transcript is present
\* and its trimmed text is not empty.
HasText(event) ==
    /\ "transcript" \in DOMAIN event
    /\ trim(event.transcript) # <<>>

\* ErrMsg that always reports the fixed text.
ErrMsgGeneric(event) == "An error occurred"

\* (event.error)?.message || "An error occurred", lines 248-249.
ErrMsg(event) ==
    IF "error" \in DOMAIN event /\ event.error.message # ""
    THEN event.error.message
    ELSE "An error occurred"

DeltaType == "response.audio_transcript.delta"
DoneType == "response.audio_transcript.done"
UserType == "conversation.item.input_audio_transcription.completed"
AudioDoneType == "response.audio.done"
ErrorType == "error"

\* handleRealtimeEvent without the case of lines 241-244: the
\* audio-finished event is not recognised.
handleRealtimeEventNoAudioDone(event, t) ==
    \/ /\ event.type = DeltaType
       /\ LET updated == Updated(partialTranscripts, event.item_id, event.delta)
          IN  /\ partialTranscripts' =
                     MapSet(partialTranscripts, event.item_id, updated)
              /\ messages' =
                     SetMessagesDelta(messages, event.item_id, updated, t)
       /\ isAiSpeaking' = TRUE
       /\ UNCHANGED error
    \/ /\ event.type = DoneType
       /\ partialTranscripts' = MapDelete(partialTranscripts, event.item_id)
       /\ messages' =
              SetMessagesDone(messages, event.item_id, event.transcript, t)
       /\ isAiSpeaking' = FALSE
       /\ UNCHANGED error
    \/ /\ event.type = UserType
       /\ messages' = IF HasText(event)
                      THEN SetMessagesUser(messages, event.item_id,
                                           event.transcript, t)
                      ELSE messages
       /\ UNCHANGED <<partialTranscripts, isAiSpeaking, error>>
    \/ /\ event.type = ErrorType
       /\ error' = ErrMsg(event)
       /\ UNCHANGED <<messages, partialTranscripts, isAiSpeaking>>
    \/ /\ event.type \notin {DeltaType, DoneType, UserType, ErrorType}
       /\ UNCHANGED <<messages, partialTranscripts, isAiSpeaking, error>>

\* handleRealtimeEvent with a default case that reports the event as an
\* error.
handleRealtimeEventDefaultError(event, t) ==
    \/ /\ event.type = DeltaType
       /\ LET updated == Updated(partialTranscripts, event.item_id, event.delta)
          IN  /\ partialTranscripts' =
                     MapSet(partialTranscripts, event.item_id, updated)
              /\ messages' =
                     SetMessagesDelta(messages, event.item_id, updated, t)
       /\ isAiSpeaking' = TRUE
       /\ UNCHANGED error
    \/ /\ event.type = DoneType
       /\ partialTranscripts' = MapDelete(partialTranscripts, event.item_id)
       /\ messages' =
              SetMessagesDone(messages, event.item_id, event.transcript, t)
       /\ isAiSpeaking' = FALSE
       /\ UNCHANGED error
    \/ /\ event.type = UserType
       /\ messages' = IF HasText(event)
                      THEN SetMessagesUser(messages, event.item_id,
                                           event.transcript, t)
                      ELSE messages
       /\ UNCHANGED <<partialTranscripts, isAiSpeaking, error>>
    \/ /\ event.type = AudioDoneType
       /\ isAiSpeaking' = FALSE
       /\ UNCHANGED <<messages, partialTranscripts, error>>
    \/ /\ event.type = ErrorType
       /\ error' = ErrMsg(event)
       /\ UNCHANGED <<messages, partialTranscripts, isAiSpeaking>>
    \/ /\ event.type \notin {DeltaType, DoneType, UserType, AudioDoneType,
                             ErrorType}
       /\ error' = "An error occurred"
       /\ UNCHANGED <<messages, partialTranscripts, isAiSpeaking>>

\* handleRealtimeEvent(event), lines 166-253; t is the reading of new Date().
handleRealtimeEvent(event, t) ==
    \/ /\ event.type = DeltaType
       /\ LET updated == Updated(partialTranscripts, event.item_id, event.delta)
          IN  /\ partialTranscripts' =
                     MapSet(partialTranscripts, event.item_id, updated)
              /\ messages' =
                     SetMessagesDelta(messages, event.item_id, updated, t)
       /\ isAiSpeaking' = TRUE
       /\ UNCHANGED error
    \/ /\ event.type = DoneType
       /\ partialTranscripts' = MapDelete(partialTranscripts, event.item_id)
       /\ messages' =
              SetMessagesDone(messages, event.item_id, event.transcript, t)
       /\ isAiSpeaking' = FALSE
       /\ UNCHANGED error
    \/ /\ event.type = UserType
       /\ messages' = IF HasText(event)
                      THEN SetMessagesUser(messages, event.item_id,
                                           event.transcript, t)
                      ELSE messages
       /\ UNCHANGED <<partialTranscripts, isAiSpeaking, error>>
    \/ /\ event.type = AudioDoneType
       /\ isAiSpeaking' = FALSE
       /\ UNCHANGED <<messages, partialTranscripts, error>>
    \/ /\ event.type = ErrorType
       /\ error' = ErrMsg(event)
       /\ UNCHANGED <<messages, partialTranscripts, isAiSpeaking>>
    \/ /\ event.type \notin {DeltaType, DoneType, UserType, AudioDoneType,
                             ErrorType}
       /\ UNCHANGED <<messages, partialTranscripts, isAiSpeaking, error>>

\* The history of the item id of the event, after it.
TrackEvent(tr, event) ==
    IF event.type = DeltaType
    THEN [tr EXCEPT ![event.item_id] =
            IF @.kind \in {"none", "fragments"}
            THEN [kind |-> "fragments", n |-> @.n + 1,
                  text |-> @.text \o event.delta]
            ELSE OtherTrack]
    ELSE IF event.type = DoneType
    THEN [tr EXCEPT ![event.item_id] =
            IF @.kind \in {"none", "fragments"}
            THEN [@ EXCEPT !.kind = "final"]
            ELSE OtherTrack]
    ELSE IF event.type = UserType
    THEN [tr EXCEPT ![event.item_id] = OtherTrack]
    ELSE tr

\* The history of the fragment and final events, after the event: the id
\* of the event joins the order when it is new, and the text of the id is
\* the delta appended to its open run of fragments, the delta alone when
\* no run is open, or the transcript of a final event, which ends the run.
SeenEvent(sn, event) ==
    IF event.type \in {DeltaType, DoneType}
    THEN LET itemId == event.item_id
             isNew == \A i \in 1..Len(sn.order) : sn.order[i] # itemId
         IN  [order |-> IF isNew THEN Append(sn.order, itemId) ELSE sn.order,
              own |-> [sn.own EXCEPT ![itemId] =
                          IF event.type = DoneType
                          THEN [open |-> FALSE, text |-> event.transcript]
                          ELSE [open |-> TRUE,
                                text |-> IF @.open THEN @.text \o event.delta
                                         ELSE event.delta]]]
    ELSE sn

\* The events the remote side sends, over the given ids and texts.
DeltaEvents(ids, texts) ==
    [type : {DeltaType}, item_id : ids, delta : texts]
DoneEvents(ids, texts) ==
    [type : {DoneType}, item_id : ids, transcript : texts]
UserEvents(ids, texts) ==
    [type : {UserType}, item_id : ids, transcript : texts]
        \cup [type : {UserType}, item_id : ids]

Deltas == {<<"a">>, <<"b">>}
Transcripts == {<<"c">>}
UserTranscripts == {<<" ">>, <<" ", "a", " ">>}

Events ==
    DeltaEvents(ItemIds, Deltas) \cup DoneEvents(ItemIds, Transcripts)
        \cup UserEvents(ItemIds, UserTranscripts)

\* The events delivered in the specification of the whole lifecycle: the
\* fragments of one item id and a remote error.
SessionEvents ==
    DeltaEvents({"i1"}, {<<"a">>})
        \cup {[type |-> ErrorType, error |-> [message |-> "Rate limited"]]}

\* The bounds of the model: the event does not grow the message list
\* beyond MaxMessages nor an accumulator beyond MaxTextLen.
WithinBounds(event) ==
    /\ event.type = DeltaType =>
         /\ Len(Updated(partialTranscripts, event.item_id, event.delta))
                <= MaxTextLen
         /\ findIndex(messages, event.item_id) >= 0
                \/ Len(messages) < MaxMessages
    /\ event.type = DoneType =>
         findIndex(messages, event.item_id) >= 0 \/ Len(messages) < MaxMessages
    /\ event.type = UserType => Len(messages) < MaxMessages

\* dc.onmessage, lines 126-128, of the open channel of call c.
DcOnMessage(c, event, t) ==
    /\ dc[c] = "open"
    /\ WithinBounds(event)
    /\ now' = t
    /\ handleRealtimeEvent(event, t)
    /\ last' = [op |-> "dcOnMessage", call |-> c, ev |-> event]
    /\ track' = TrackEvent(track, event)
    /\ seen' = SeenEvent(seen, event)
    /\ UNCHANGED <<status, inputVolume, heapVars, at, mounted, cancelled>>

Times == 0..MaxTime

Next ==
    \/ Lifecycle
    \/ \E c \in Calls, event \in SessionEvents, t \in Times :
          t >= now /\ DcOnMessage(c, event, t)

Spec == Init /\ [][Next]_vars

\* ----------------------------------------- the reducer on its own
\* The state in which the session of call 1 is connected.
InitConnected ==
    /\ status = "connected"
    /\ messages = <<>>
    /\ isAiSpeaking = FALSE
    /\ error = NoError
    /\ inputVolume = 0
    /\ pcRef = 1
    /\ dcRef = 1
    /\ audioElRef = 1
    /\ streamRef = 1
    /\ animFrameRef = 1
    /\ partialTranscripts = EmptyMap
    /\ at = [c \in Calls |-> IF c = 1 THEN "done" ELSE "idle"]
    /\ pc = [c \in Calls |-> IF c = 1 THEN "open" ELSE "none"]
    /\ audioEl = [c \in Calls |-> IF c = 1 THEN "attached" ELSE "none"]
    /\ stream = [c \in Calls |-> IF c = 1 THEN "live" ELSE "none"]
    /\ dc = [c \in Calls |-> IF c = 1 THEN "open" ELSE "none"]
    /\ loop = [c \in Calls |-> IF c = 1 THEN "scheduled" ELSE "none"]
    /\ mounted = TRUE
    /\ now = 0
    /\ last = Op("dcOnOpen", 1)
    /\ cancelled = {}
    /\ track = NoTrack
    /\ seen = NoSeen

NextEvents ==
    \E event \in Events, t \in Times : t >= now /\ DcOnMessage(1, event, t)

SpecEvents == InitConnected /\ [][NextEvents]_vars

\* The events of the specification of the flags: fragments and finals of
\* the item ids, the audio-finished event, an event of a type that
\* handleRealtimeEvent has no case for, and remote errors with a message,
\* with an empty message and without an error object.
UnknownType == "session.created"

ErrorEvents ==
    {[type |-> ErrorType, error |-> [message |-> "Rate limited"]],
     [type |-> ErrorType, error |-> [message |-> ""]],
     [type |-> ErrorType]}

FlagEvents ==
    DeltaEvents(ItemIds, {<<"a">>}) \cup DoneEvents(ItemIds, Transcripts)
        \cup {[type |-> AudioDoneType], [type |-> UnknownType]}
        \cup ErrorEvents

NextFlags ==
    \E event \in FlagEvents, t \in Times : t >= now /\ DcOnMessage(1, event, t)

SpecFlags == InitConnected /\ [][NextFlags]_vars

\* The events of the specification of the order of the Messages: the
\* fragments and the finals of the item ids, each id with transcripts of
\* its own to choose from.
FinalTranscripts == {<<"c">>, <<"d">>}

OrderEvents ==
    DeltaEvents(ItemIds, Deltas) \cup DoneEvents(ItemIds, FinalTranscripts)

NextOrder ==
    \E event \in OrderEvents, t \in Times : t >= now /\ DcOnMessage(1, event, t)

SpecOrder == InitConnected /\ [][NextOrder]_vars

\* ------------------------------- the transcript over several sessions
\* The events of the specification of the transcript over the lifecycle:
\* the fragment and the final of one reply and one user transcript.
TranscriptEvents ==
    DeltaEvents({"i1"}, {<<"a">>}) \cup DoneEvents({"i1"}, Transcripts)
        \cup [type : {UserType}, item_id : {"i2"}, transcript : {<<"a">>}]

\* Every operation that reads or writes the message list or the
\* accumulators, or that starts or ends a session.  tick() and the dismiss
\* button are left out: they write inputVolume, animFrameRef and error
\* only.
NextTranscript ==
    \/ ClickMainButton
    \/ ClickEndSession
    \/ Unmount
    \/ \E c \in Calls : ConnectStep(c)
    \/ \E c \in Calls : DcOnOpen(c)
    \/ \E c \in Calls : DcOnClose(c)
    \/ \E c \in Calls, event \in TranscriptEvents, t \in Times :
          t >= now /\ DcOnMessage(c, event, t)

SpecTranscript == Init /\ [][NextTranscript]_vars

\* ====================================================== the claims
\* What a call holds of the resources it created.
StreamLive(c) == stream[c] = "live"
PeerOpen(c) == pc[c] = "open"
ChannelOpen(c) == dc[c] \in {"connecting", "open"}
SinkAttached(c) == audioEl[c] = "attached"
LoopRunning(c) == loop[c] = "scheduled"

Released(c) ==
    ~StreamLive(c) /\ ~PeerOpen(c) /\ ~ChannelOpen(c) /\ ~SinkAttached(c)
        /\ ~LoopRunning(c)

\* C1: when disconnect() ran while the status was connecting and a
\* connect() call was suspended at one of its awaits, then once that call
\* has run to its end the status is disconnected and no resource is held:
\* no live capture stream, no open peer connection, no open message
\* channel, no audio sink element, no sampling loop.
C1_CancelledConnectReleases ==
    (cancelled # {} /\ \A c \in Calls : ~InFlight(c)) =>
        /\ status = "disconnected"
        /\ \A c \in Calls : Released(c)

\* C2: after the on-close callback of a message channel the status is
\* disconnected and the session of that channel is torn down: capture
\* tracks stopped, peer connection and channel closed, audio sink removed,
\* sampling loop cancelled.
C2_CloseTearsDown ==
    last.op = "dcOnClose" =>
        /\ status = "disconnected"
        /\ Released(last.call)

\* C3: at most one peer connection, one message channel and one capture
\* stream are open in every reachable state, and when connect() starts,
\* every resource of the earlier sessions has been released.
C3_OneSession ==
    /\ Cardinality({c \in Calls : PeerOpen(c)}) <= 1
    /\ Cardinality({c \in Calls : ChannelOpen(c)}) <= 1
    /\ Cardinality({c \in Calls : StreamLive(c)}) <= 1
    /\ last.op = "connect" =>
         \A b \in Calls : b # last.call => Released(b)

\* C4: connect() is not reentrant: at most one call of connect() is
\* between its start and its end in every reachable state.
C4_NotReentrant ==
    Cardinality({c \in Calls : InFlight(c)}) <= 1

\* C5: after the catch block of a failed connect() the status is
\* disconnected, a non-empty error message is set, and every resource the
\* failed call acquired is released: capture tracks stopped, peer
\* connection closed, message channel closed, audio sink removed.
C5_FailureReleases ==
    last.op = "catch" =>
        /\ status = "disconnected"
        /\ error # NoError /\ error # ""
        /\ ~StreamLive(last.call)
        /\ ~PeerOpen(last.call)
        /\ ~ChannelOpen(last.call)
        /\ ~SinkAttached(last.call)

\* ------------------------------------------- claims about the reducer
WithId(msgs, itemId) == {i \in 1..Len(msgs) : msgs[i].id = itemId}

LastEventIs(types) == last.op = "dcOnMessage" /\ last.ev.type \in types

\* C6: the message list holds at most one Message per id in every
\* reachable state.
C6_UniqueIds ==
    \A i, j \in 1..Len(messages) : i # j => messages[i].id # messages[j].id

\* C7: for an item id of which only fragment events have been received,
\* the message list holds exactly one Message with that id and its text is
\* the concatenation of the deltas in arrival order.
C7_FragmentsConcatenate ==
    \A itemId \in ItemIds :
        track[itemId].kind = "fragments" =>
            /\ Cardinality(WithId(messages, itemId)) = 1
            /\ \A i \in WithId(messages, itemId) :
                   messages[i].text = track[itemId].text

\* Two different deltas of one id have been concatenated.
C7_Witness ==
    \E itemId \in ItemIds :
        /\ track[itemId].kind = "fragments"
        /\ track[itemId].n = 2
        /\ track[itemId].text = <<"a", "b">>
        /\ \E i \in WithId(messages, itemId) : messages[i].text = <<"a", "b">>

\* C8: after a final event for an item id of which only fragments (zero or
\* more) had been received before, the message list holds exactly one
\* Message with that id, its text is the transcript of the final event,
\* and the id has no accumulator entry.
C8_FinalReplaces ==
    (LastEventIs({DoneType}) /\ track[last.ev.item_id].kind = "final") =>
        /\ Cardinality(WithId(messages, last.ev.item_id)) = 1
        /\ \A i \in WithId(messages, last.ev.item_id) :
               messages[i].text = last.ev.transcript
        /\ ~MapHas(partialTranscripts, last.ev.item_id)

\* A final event has replaced the text accumulated from two fragments.
C8_Witness ==
    /\ LastEventIs({DoneType})
    /\ track[last.ev.item_id].kind = "final"
    /\ track[last.ev.item_id].n = 2
    /\ track[last.ev.item_id].text # last.ev.transcript
    /\ \E i \in WithId(messages, last.ev.item_id) :
           messages[i].text = last.ev.transcript

AllWhitespace(s) == \A k \in 1..Len(s) : s[k] \in Whitespace

\* t is s without its leading and trailing whitespace, s not all whitespace.
IsTrimOf(t, s) ==
    \E i, j \in 1..Len(s) :
        /\ i <= j
        /\ t = SubSeq(s, i, j)
        /\ s[i] \notin Whitespace
        /\ s[j] \notin Whitespace
        /\ \A k \in 1..Len(s) : (k < i \/ k > j) => s[k] \in Whitespace

\* C9: a user-final event whose transcript is absent, empty or whitespace
\* only leaves the message list unchanged; any other appends exactly one
\* Message after all prior ones, with role user and the trimmed transcript
\* as text, and changes no existing Message.
C9_UserFinal ==
    [][(last'.op = "dcOnMessage" /\ last'.ev.type = UserType) =>
        IF "transcript" \in DOMAIN last'.ev /\ ~AllWhitespace(last'.ev.transcript)
        THEN /\ Len(messages') = Len(messages) + 1
             /\ SubSeq(messages', 1, Len(messages)) = messages
             /\ messages'[Len(messages')].id = last'.ev.item_id
             /\ messages'[Len(messages')].role = "user"
             /\ IsTrimOf(messages'[Len(messages')].text, last'.ev.transcript)
        ELSE messages' = messages]_vars

\* A padded user transcript has been appended, trimmed, after a prior
\* Message.
C9_Witness ==
    /\ LastEventIs({UserType})
    /\ "transcript" \in DOMAIN last.ev
    /\ last.ev.transcript = <<" ", "a", " ">>
    /\ Len(messages) >= 2
    /\ messages[Len(messages)].text = <<"a">>
    /\ messages[Len(messages)].role = "user"

\* C10: a fragment or final event for an id that a Message already has
\* changes only the text of one Message with that id: the length of the
\* list, the position, id, role and timestamp of that Message and every
\* other Message stay the same; for an id no Message has, exactly one
\* Message with that id is appended at the end.
C10_Upsert ==
    [][(last'.op = "dcOnMessage" /\ last'.ev.type \in {DeltaType, DoneType}) =>
        LET itemId == last'.ev.item_id
            n == Len(messages)
        IN  IF WithId(messages, itemId) # {}
            THEN /\ Len(messages') = n
                 /\ \E k \in WithId(messages, itemId) :
                      \A j \in 1..n :
                         IF j = k
                         THEN /\ messages'[j].id = messages[j].id
                              /\ messages'[j].role = messages[j].role
                              /\ messages'[j].timestamp = messages[j].timestamp
                         ELSE messages'[j] = messages[j]
            ELSE /\ Len(messages') = n + 1
                 /\ SubSeq(messages', 1, n) = messages
                 /\ messages'[n + 1].id = itemId]_vars

\* An event has updated, at a later time, the first of two Messages.
C10_Witness ==
    /\ LastEventIs({DeltaType, DoneType})
    /\ Len(messages) >= 2
    /\ messages[1].id = last.ev.item_id
    /\ messages[2].id # last.ev.item_id
    /\ messages[1].timestamp < now

\* ------------------------------------ claims about flags and teardown
\* C11: in the state reached after disconnect(), after the catch block of
\* a failed connect(), or after the on-close callback of a message channel
\* has set the status to disconnected, isAiSpeaking is false.
C11_NotSpeakingAfterTeardown ==
    last.op \in {"disconnect", "unmount", "catch", "dcOnClose"} =>
        ~isAiSpeaking

\* C12: isAiSpeaking is true immediately after every fragment event and
\* false immediately after every final event and every audio-finished
\* event; an audio-finished event changes neither the message list nor the
\* accumulators.
C12_SpeakingFollowsEvents ==
    [][last'.op = "dcOnMessage" =>
        /\ last'.ev.type = DeltaType => isAiSpeaking'
        /\ last'.ev.type \in {DoneType, AudioDoneType} => ~isAiSpeaking'
        /\ last'.ev.type = AudioDoneType =>
             UNCHANGED <<messages, partialTranscripts>>]_vars

\* An audio-finished event has arrived while a fragment was accumulating:
\* the flag is off, the Message and the accumulator are still there.
C12_Witness ==
    /\ LastEventIs({AudioDoneType})
    /\ ~isAiSpeaking
    /\ \E itemId \in ItemIds :
          /\ MapHas(partialTranscripts, itemId)
          /\ WithId(messages, itemId) # {}

\* C13: every error is handled by reverting the status to disconnected,
\* releasing every resource of the session and setting a non-empty error
\* message, which leaves connect() invocable again (the main button calls
\* it when the status is disconnected): after the catch block of a failed
\* connect(), after an error event of the remote side on the message
\* channel, and after the close of an open message channel.
C13_ErrorsRevert ==
    [][\A c \in Calls :
          (\/ last'.op = "catch" /\ last'.call = c
           \/ /\ last'.op = "dcOnMessage" /\ last'.call = c
              /\ last'.ev.type = ErrorType
           \/ dc[c] = "open" /\ dc'[c] = "closed")
          => /\ status' = "disconnected"
             /\ Released(c)'
             /\ error' # NoError /\ error' # ""]_vars

\* The awaits of connect() that obtain the credential, lines 73-78.
CredentialAwaits == {"fetchToken", "errJson", "tokenJson"}

\* C14: when connect() fails while it obtains the credential (the request
\* fails, the response is not ok, or it carries no key), the call has
\* created no peer connection, no audio sink, no capture stream and no
\* message channel, the status is disconnected and a non-empty error is
\* set.
C14_CredentialFailureAllocatesNothing ==
    [][\A c \in Calls :
          (at[c] \in CredentialAwaits /\ at'[c] = "failed") =>
             /\ pc'[c] = "none"
             /\ audioEl'[c] = "none"
             /\ stream'[c] = "none"
             /\ dc'[c] = "none"
             /\ status' = "disconnected"
             /\ error' # NoError /\ error' # ""]_vars

\* A connect() call has failed on a response without a key and owns no
\* object.
C14_Witness ==
    /\ last.op = "catch"
    /\ at[last.call] = "failed"
    /\ error = "No ephemeral key received from server"
    /\ pc[last.call] = "none" /\ audioEl[last.call] = "none"
    /\ stream[last.call] = "none" /\ dc[last.call] = "none"

\* C15: disconnect() leaves the message list, the accumulators and the
\* error as they are; run right after a disconnect() it changes nothing;
\* run while the status is disconnected and no resource is held it changes
\* nothing but isAiSpeaking, which becomes false, and inputVolume, which
\* becomes 0.
C15_DisconnectIdempotent ==
    [][last'.op \in {"disconnect", "unmount"} =>
        /\ UNCHANGED <<messages, partialTranscripts, error>>
        /\ last.op \in {"disconnect", "unmount"} =>
             UNCHANGED <<reactVars, heapVars>>
        /\ (status = "disconnected" /\ \A c \in Calls : Released(c)) =>
             /\ UNCHANGED <<status, heapVars>>
             /\ ~isAiSpeaking'
             /\ inputVolume' = 0]_vars

\* disconnect() has ended a session that had received a fragment: the
\* Message and the accumulator are kept, the resources released, the flags
\* reset.
C15_Witness ==
    /\ last.op \in {"disconnect", "unmount"}
    /\ messages # <<>>
    /\ MapHas(partialTranscripts, "i1")
    /\ \E c \in Calls : at[c] = "done" /\ pc[c] = "closed"
    /\ \A c \in Calls : Released(c)
    /\ status = "disconnected" /\ ~isAiSpeaking /\ inputVolume = 0

\* C16: an event of a type that handleRealtimeEvent has no case for
\* leaves the message list, the accumulators, isAiSpeaking, the error and
\* the status unchanged.
C16_UnknownEventIgnored ==
    [][(last'.op = "dcOnMessage" /\ last'.ev.type = UnknownType) =>
        UNCHANGED <<messages, partialTranscripts, isAiSpeaking, error,
                    status, inputVolume, heapVars>>]_vars

\* An unrecognised event has arrived in the middle of a reply, after a
\* remote error.
C16_Witness ==
    /\ LastEventIs({UnknownType})
    /\ messages # <<>>
    /\ isAiSpeaking
    /\ error = "Rate limited"
    /\ \E itemId \in ItemIds : MapHas(partialTranscripts, itemId)

\* C17: an error event of the remote side that carries a message field
\* sets the error to the message it carries, and changes neither the
\* message list nor the accumulators.
C17_RemoteErrorSurfaced ==
    [][(last'.op = "dcOnMessage" /\ last'.ev.type = ErrorType) =>
        /\ "error" \in DOMAIN last'.ev => error' = last'.ev.error.message
        /\ UNCHANGED <<messages, partialTranscripts>>]_vars

\* C17, amended: an error event of the remote side sets the error to the
\* message it carries when that message is not empty, and to the text
\* "An error occurred" when the message is empty or the event has no error
\* object; it changes neither the message list nor the accumulators.
C17_RemoteErrorOrFallback ==
    [][(last'.op = "dcOnMessage" /\ last'.ev.type = ErrorType) =>
        /\ error' = IF "error" \in DOMAIN last'.ev
                       /\ last'.ev.error.message # ""
                    THEN last'.ev.error.message
                    ELSE "An error occurred"
        /\ UNCHANGED <<messages, partialTranscripts>>]_vars

\* An error event with an empty message has set the fixed text, with a
\* Message and an accumulator in place.
C17_Witness ==
    /\ LastEventIs({ErrorType})
    /\ "error" \in DOMAIN last.ev
    /\ last.ev.error.message = ""
    /\ error = "An error occurred"
    /\ messages # <<>>
    /\ \E itemId \in ItemIds : MapHas(partialTranscripts, itemId)

\* C18: under any interleaving of the fragment and final events of the
\* item ids, the list holds one Message per id seen, in the order in which
\* the ids were first seen, and the text of each Message is the one that
\* the events of its own id give: the concatenation of its deltas, or its
\* final transcript.
C18_OwnTextFirstSeenOrder ==
    /\ Len(messages) = Len(seen.order)
    /\ \A i \in 1..Len(messages) :
          /\ messages[i].id = seen.order[i]
          /\ messages[i].text = seen.own[seen.order[i]].text

\* The id seen first has been finalized after the id seen second: its
\* Message is still the first of the list, and the two Messages carry the
\* different transcripts of their own final events.
C18_Witness ==
    /\ LastEventIs({DoneType})
    /\ Len(messages) = 2
    /\ messages[1].id = last.ev.item_id
    /\ track[messages[1].id].kind = "final"
    /\ track[messages[1].id].n >= 1
    /\ track[messages[2].id].kind = "final"
    /\ track[messages[2].id].n >= 1
    /\ messages[1].text = last.ev.transcript
    /\ messages[2].text # messages[1].text

\* ------------------------------------- claims about the volume loop
\* C19: when cleanup() has returned, in disconnect() or in the catch block
\* of connect(), no sampling loop has a frame requested, whatever the
\* number of loops started before, and inputVolume is 0: no tick of an
\* earlier loop can write inputVolume afterwards.
C19_NoLoopAfterTeardown ==
    last.op \in {"disconnect", "unmount", "catch"} =>
        /\ \A c \in Calls : ~LoopRunning(c)
        /\ inputVolume = 0

\* C20: in every reachable state in which a sampling loop has a frame
\* requested or has just written inputVolume the status is connected, and
\* inputVolume is 0 whenever the status is disconnected.
C20_LoopOnlyWhileConnected ==
    /\ (\E c \in Calls : LoopRunning(c)) => status = "connected"
    /\ last.op = "tick" => status = "connected"
    /\ status = "disconnected" => inputVolume = 0

\* ------------------------------- claims about the transcript as a whole
\* C21: in every reachable state an item id has an accumulator entry
\* exactly when a fragment of it has arrived with no final event of it
\* since, whatever disconnect() and connect() ran in between; the entry
\* holds the fragments since then, a Message with that id exists, and the
\* text of the first such Message is the value of the entry.
C21_AccumulatorMatchesMessage ==
    \A itemId \in ItemIds :
        /\ MapHas(partialTranscripts, itemId) <=> seen.own[itemId].open
        /\ MapHas(partialTranscripts, itemId) =>
             /\ partialTranscripts[itemId].text = seen.own[itemId].text
             /\ WithId(messages, itemId) # {}
             /\ \A i \in WithId(messages, itemId) :
                   (\A j \in WithId(messages, itemId) : i <= j) =>
                       messages[i].text = partialTranscripts[itemId].text

\* A fragment of the second session has extended the entry that a
\* fragment of the first session, ended by disconnect(), had created.
C21_Witness ==
    /\ LastEventIs({DeltaType})
    /\ last.call = 2
    /\ at[1] = "done" /\ pc[1] = "closed"
    /\ MapHas(partialTranscripts, "i1")
    /\ partialTranscripts["i1"].text = <<"a", "a">>
    /\ messages # <<>>
    /\ messages[1].text = <<"a", "a">>

\* C22: no step removes a Message, changes the order of two Messages or
\* changes the id or the role of a Message: after every step the Messages
\* of before are at their positions with their ids and roles; and every
\* step other than an event (connect(), the awaits and the catch block of
\* connect(), disconnect(), the open and the close of a channel) leaves
\* the message list as it is.
C22_MessagesOnlyGrow ==
    [][/\ Len(messages') >= Len(messages)
       /\ \A i \in 1..Len(messages) :
             /\ messages'[i].id = messages[i].id
             /\ messages'[i].role = messages[i].role
       /\ last'.op # "dcOnMessage" => messages' = messages]_vars

\* The channel of a second session has opened after the first session,
\* which left two Messages, was ended by disconnect(): both are there.
C22_Witness ==
    /\ last.op = "dcOnOpen"
    /\ last.call = 2
    /\ at[1] = "done" /\ pc[1] = "closed"
    /\ Len(messages) = 2
    /\ messages[1].id # messages[2].id

\* What a call would hold, with the refs and objects h, of the resources
\* it created.
ReleasedIn(h, c) ==
    /\ h.stream[c] # "live"
    /\ h.pc[c] # "open"
    /\ h.dc[c] \notin {"connecting", "open"}
    /\ h.audioEl[c] # "attached"
    /\ h.loop[c] # "scheduled"

\* C23: whenever the status is connected, pcRef, dcRef, streamRef and
\* audioElRef are not null and hold the objects of one call, the one whose
\* channel is open, and the cleanup() of a disconnect() run in that state
\* leaves no resource of any call held.
C23_ConnectedHoldsItsSession ==
    status = "connected" =>
        /\ \E c \in Calls :
              /\ pcRef = c /\ dcRef = c /\ streamRef = c /\ audioElRef = c
              /\ dc[c] = "open"
              /\ \A b \in Calls : dc[b] = "open" => b = c
        /\ \A c \in Calls : ReleasedIn(cleanup(Heap), c)
====
